---------------------------- MODULE Spec2Model ----------------------------
(***************************************************************************)
(* A model of the esp32-3D raycasting renderer (src/main/main.c with the   *)
(* ESP32 raylib shim src/main/libs/raylib.h).                              *)
(*                                                                         *)
(* Numbers.  The program computes in IEEE binary32.  The model keeps the   *)
(* shape of that arithmetic in a small binary floating-point format: a     *)
(* value is an integer count of units of 1/ONE, every operation rounds its *)
(* exact result to PREC significant bits (round to nearest, ties to even), *)
(* and values below 1.0 keep the fixed quantum of one unit.  EPSILON is    *)
(* scaled with the format, so that the ratio between EPSILON and the       *)
(* spacing of the representable numbers at a given cell coordinate is that *)
(* of binary32 (spacing = EPSILON in [8,16), 4*EPSILON in [32,64), ...).   *)
(*                                                                         *)
(* Angles are integer multiples of PI/28 (FOV_ANGLE = PI/3.5 is 8 of       *)
(* them); cosf and sinf are tables of the rounded values at these angles.  *)
(* Time is counted in ticks of PI/35 seconds, so that a rotation of        *)
(* dt * PLAYER_ROTATION_SPEED radians is dt angle units.                   *)
(*                                                                         *)
(* Build: ESP32, with a panel of LCD_W x LCD_H = 8 x 6 pixels (the size is *)
(* a compile flag of the shim), which gives four columns to a frame.       *)
(***************************************************************************)
EXTENDS Integers, Sequences, FiniteSets, TLC

-----------------------------------------------------------------------------
(* Bounds of the model *)

\* frames of the main loop that are explored
MaxFrames == 3
\* frame times (in ticks) the timer may report: a frame of 1.26 s (a quarter
\* turn) and a long stall of 26 s
DtTurn == 14
DtFar == 290

DtSet == {DtTurn, DtFar}
\* cells of one cast that the history variable visited records
MaxVisited == 48

-----------------------------------------------------------------------------
(* The floating-point format *)

\* units per 1.0
ONE == 1024
\* significand bits
PREC == 10

Abs(a) == IF a < 0 THEN -a ELSE a

Pow2(n) == 2 ^ n

\* spacing of the representable values around magnitude a
RECURSIVE QuantumFrom(_, _)
QuantumFrom(a, q) == IF a < Pow2(PREC) * q THEN q ELSE QuantumFrom(a, 2 * q)

Quantum(a) == QuantumFrom(a, 1)

\* n / d (d > 0) rounded to the nearest integer, ties to even
RoundDiv(n, d) ==
    LET f == n \div d
        r == n % d
    IN  IF 2 * r < d THEN f
        ELSE IF 2 * r > d THEN f + 1
        ELSE IF f % 2 = 0 THEN f ELSE f + 1

\* the rational n / d (d > 0), rounded to a representable value
Fl(n, d) ==
    LET q == Quantum(Abs(n) \div d)
    IN  q * RoundDiv(n, d * q)

FAdd(a, b) == Fl(a + b, 1)
FSub(a, b) == Fl(a - b, 1)
FMul(a, b) == Fl(a * b, ONE)
FDiv(a, b) == IF b > 0 THEN Fl(a * ONE, b) ELSE Fl(-(a * ONE), -b)

\* floorf, as an integer
Floor(a) == a \div ONE

\* conversion of a float to int: truncation toward zero
Trunc(a) == IF a >= 0 THEN a \div ONE ELSE -((-a) \div ONE)

\* the integer i as a float
OfInt(i) == Fl(i * ONE, 1)

RECURSIVE ISqrtIn(_, _, _)
ISqrtIn(n, lo, hi) ==
    IF lo >= hi THEN lo
    ELSE LET mid == (lo + hi + 1) \div 2
         IN  IF mid * mid <= n THEN ISqrtIn(n, mid, hi) ELSE ISqrtIn(n, lo, mid - 1)

\* floor of the square root of n (0 <= n < 2^31)
ISqrt(n) == ISqrtIn(n, 0, 46340)

\* sqrtf: the square root of a, rounded to a representable value
FSqrt(a) ==
    LET n == a * ONE
        r == ISqrt(n)
        q == Quantum(r)
    IN  IF q = 1
        THEN IF n <= r * r + r THEN r ELSE r + 1
        ELSE LET lo == q * (r \div q)
                 mid == lo + q \div 2
             IN  IF n < mid * mid THEN lo
                 ELSE IF n > mid * mid THEN lo + q
                 ELSE IF (lo \div q) % 2 = 0 THEN lo ELSE lo + q

-----------------------------------------------------------------------------
(* raymath *)

\* EPSILON (0.000001f), scaled to the format: a little more than 2^-6
EPSILON == 17

\* angle units (PI/28) in PI
PI_UNITS == 28

CosTab ==
    << 1024, 1018, 998, 967, 923, 867, 801, 724, 638, 545, 444, 338, 228, 115,
       0, -115, -228, -338, -444, -545, -638, -724, -801, -867, -923, -967, -998, -1018,
       -1024, -1018, -998, -967, -923, -867, -801, -724, -638, -545, -444, -338, -228, -115,
       0, 115, 228, 338, 444, 545, 638, 724, 801, 867, 923, 967, 998, 1018 >>

cosf(k) == CosTab[(k % (2 * PI_UNITS)) + 1]
sinf(k) == CosTab[((k - PI_UNITS \div 2) % (2 * PI_UNITS)) + 1]

Vec(x, y) == [x |-> x, y |-> y]

Vector2Add(v1, v2) == Vec(FAdd(v1.x, v2.x), FAdd(v1.y, v2.y))
Vector2Subtract(v1, v2) == Vec(FSub(v1.x, v2.x), FSub(v1.y, v2.y))
Vector2Scale(v, s) == Vec(FMul(v.x, s), FMul(v.y, s))
Vector2DotProduct(v1, v2) == FAdd(FMul(v1.x, v2.x), FMul(v1.y, v2.y))
Vector2Length(v) == FSqrt(FAdd(FMul(v.x, v.x), FMul(v.y, v.y)))
Vector2Rotate(v, k) ==
    Vec(FSub(FMul(v.x, cosf(k)), FMul(v.y, sinf(k))),
        FAdd(FMul(v.x, sinf(k)), FMul(v.y, cosf(k))))

-----------------------------------------------------------------------------
(* Configuration: src/main/main.c, ESP32 branch *)

\* the panel, scaled down
LCD_W == 8
LCD_H == 6
SCREEN_W == LCD_W
SCREEN_H == LCD_H
RAY_RES == 2
COLS == 10
ROWS == 10
MINIMAP_CELL_SCALE == 20
\* ((float)SCREEN_W / SCREEN_H)
ASPECT_RATIO == FDiv(OfInt(SCREEN_W), OfInt(SCREEN_H))
\* PI / 3.5, in angle units
FOV_ANGLE == (2 * PI_UNITS) \div 7
\* in cells
MAX_RENDER_DIST == 20

\* dt * PLAYER_SPEED for dt ticks of PI/35 s: dt * 2.5 * (355/113) / 35
MoveDist(dt) == Fl(dt * 5 * 355 * ONE, 2 * 113 * 35)
\* dt * PLAYER_ROTATION_SPEED for dt ticks, in angle units
RotAngle(dt) == dt

\* Color: 5, 6 and 5 bits
Col(r, g, b) == [r |-> r, g |-> g, b |-> b]
RED == Col(28, 10, 6)
GREEN == Col(0, 57, 6)
BLUE == Col(0, 30, 30)
YELLOW == Col(31, 62, 0)
PURPLE == Col(24, 30, 31)
ORANGE == Col(31, 40, 0)
WHITE == Col(31, 63, 31)
BLACK == Col(0, 0, 0)
MAGENTA == Col(31, 0, 31)

\* Color color_map[] = {...}: the array as the program starts with it; it is
\* indexed from 0 in the program: color_map[c - 128] is color_map[c - 128 + 1]
InitColorMap == << RED, GREEN, BLUE, YELLOW, PURPLE, ORANGE, WHITE >>

KEY_A == "A"
KEY_D == "D"
KEY_W == "W"
KEY_S == "S"
KEY_E == "E"
KEY_Q == "Q"

-----------------------------------------------------------------------------
VARIABLES
    map,            \* map[row][col], rows 0..ROWS-1, columns 0..COLS-1
    color_map,      \* the palette: color_map[c - 128 + 1] for the code c
    DEBUG,          \* the build defines DEBUG (fixed for a run)
    p,              \* the Player of main: pos and dir
    pc,             \* where main is
    frame,          \* frames begun so far
    clock,          \* esp_timer_get_time(), in ticks
    last_time_us,   \* the timer value GetFrameTime saw last
    slice_x,        \* draw_walls: the column
    alpha,          \* draw_walls: the angle offset of the column
    dir,            \* raycast_walls: the ray direction
    rs,             \* raycast_walls: the sample point
    visited,        \* the cells examined by the running cast, in order
    readIdx,        \* the map indexes <<row, col>> read by the running cast
    slice,          \* the outcome of the last finished cast of this draw_walls call
    slices,         \* the outcomes of the casts of this draw_walls call, in order
    fb              \* framebuffer[LCD_W * LCD_H]

vars == << map, color_map, DEBUG, p, pc, frame, clock, last_time_us, slice_x, alpha,
           dir, rs, visited, readIdx, slice, slices, fb >>

NoSlice == [kind |-> "none"]
NoVec == Vec(0, 0)

\* an init_game whose last wall has the code after the last palette entry
init_game_PastPalette ==
    [i \in 0 .. ROWS - 1 |-> [j \in 0 .. COLS - 1 |->
        CASE i = 1 /\ j = 3 -> 128
          [] i = 1 /\ j = 4 -> 131
          [] i = 1 /\ j = 5 -> 129
          [] i = 2 /\ j = 5 -> 133
          [] i = 3 /\ j = 4 -> 129
          [] i = 3 /\ j = 5 -> 132
          [] i = 7 /\ j = 7 -> 130
          [] i = 8 /\ j = 8 -> 129
          [] i = 9 /\ j = 9 -> 135
          [] OTHER -> 0]]

\* static uint8_t map[ROWS][COLS] = {0}, then init_game()
init_game ==
    [i \in 0 .. ROWS - 1 |-> [j \in 0 .. COLS - 1 |->
        CASE i = 1 /\ j = 3 -> 128
          [] i = 1 /\ j = 4 -> 131
          [] i = 1 /\ j = 5 -> 129
          [] i = 2 /\ j = 5 -> 133
          [] i = 3 /\ j = 4 -> 129
          [] i = 3 /\ j = 5 -> 132
          [] i = 7 /\ j = 7 -> 130
          [] i = 8 /\ j = 8 -> 129
          [] i = 9 /\ j = 9 -> 134
          [] OTHER -> 0]]

\* Player p = {.pos = {.x = 0.2, .y = 1.3}, .dir = {.x = 1, .y = 0}}
InitPlayer == [pos |-> Vec(Fl(2 * ONE, 10), Fl(13 * ONE, 10)), dir |-> Vec(ONE, 0)]

\* camera poses of later frames: the centres of the cells around the walls and
\* beside the far corner, and two poses close to a cell boundary, each facing
\* the eight compass directions
PosePos ==
    { Vec(i * ONE + ONE \div 2, j * ONE + ONE \div 2) : i \in 0 .. 7, j \in 0 .. 4 }
        \cup { Vec(i * ONE + ONE \div 2, i * ONE + ONE \div 2) : i \in 6 .. 9 }
        \cup { Vec(4600, 2560), Vec(512, 973), Vec(2560, 2044) }

PoseDir == { Vec(cosf(k * (PI_UNITS \div 4)), sinf(k * (PI_UNITS \div 4))) : k \in 0 .. 7 }

\* main after init_game() and the declaration of p
InitMain ==
    /\ p = InitPlayer
    /\ pc = "loop"
    /\ frame = 0
    /\ clock = 1
    /\ last_time_us = 0

\* main in a later frame, about to call draw_walls(p)
InitFrame ==
    /\ p \in [pos : PosePos, dir : PoseDir]
    /\ pc = "draw"
    /\ frame = MaxFrames
    /\ clock = 1
    /\ last_time_us = 1

\* main at the start of a run (or of a later frame), whatever the build
InitProgram ==
    /\ map = init_game
    /\ color_map = InitColorMap
    /\ InitMain \/ InitFrame
    /\ slice_x = 0
    /\ alpha = 0
    /\ dir = NoVec
    /\ rs = NoVec
    /\ visited = << >>
    /\ readIdx = {}
    /\ slice = NoSlice
    /\ slices = << >>
    /\ fb = [i \in 0 .. LCD_W * LCD_H - 1 |-> 0]

\* the program without DEBUG, as the ESP32 build compiles it
Init == DEBUG = FALSE /\ InitProgram

\* the program built with or without DEBUG, from the start of main
DebugInit == DEBUG \in BOOLEAN /\ InitProgram /\ pc = "loop"

-----------------------------------------------------------------------------
(* The raylib shim: src/main/libs/raylib.h *)

\* WindowShouldClose(): return 0
WindowShouldClose == FALSE

\* an IsKeyDown that reports KEY_W when either button is pressed
IsKeyDown_Either(key, levelA, levelD) ==
    IF key = KEY_W THEN levelD = 0 \/ levelA = 0
    ELSE IF key = KEY_A THEN levelA = 0
    ELSE IF key = KEY_D THEN levelD = 0
    ELSE FALSE

\* IsKeyDown(key), with the levels of the two buttons (0 is pressed)
IsKeyDown(key, levelA, levelD) ==
    IF key = KEY_W THEN levelD = 0 /\ levelA = 0
    ELSE IF key = KEY_A THEN levelA = 0
    ELSE IF key = KEY_D THEN levelD = 0
    ELSE FALSE

\* a GetFrameTime without the case of the first call
GetFrameTime_NoFirst(current, last) == << current - last, current >>

\* GetFrameTime(): <<the value returned, the new last_time_us>>
GetFrameTime(current, last) ==
    IF last = 0 THEN << 0, current >> ELSE << current - last, current >>

\* GetColor(value): the channels of an RGB565 word
GetColor(value) ==
    Col((value \div 2048) % 32, (value \div 32) % 64, value % 32)

\* ColorToInt: the RGB565 word, bytes swapped
ColorToInt(c) ==
    LET uc == c.r * 2048 + c.g * 32 + c.b
    IN  (uc \div 256) + (uc % 256) * 256

\* ColorBrightness(color, factor)
ColorBrightness(color, factor) ==
    LET f1 == IF factor > ONE THEN ONE ELSE IF factor < -ONE THEN -ONE ELSE factor
        chan(c, top, bits) ==
            IF f1 < 0
            THEN Trunc(FMul(OfInt(c), FAdd(ONE, f1))) % bits
            ELSE Trunc(FAdd(FMul(FSub(OfInt(top), OfInt(c)), f1), OfInt(c))) % bits
    IN  Col(chan(color.r, 31, 32), chan(color.g, 63, 64), chan(color.b, 31, 32))

(* The arguments of DrawRectangle are C ints.  posX + width and posY + height
   at raylib.h 490-491 are int additions: when the sum does not fit an int the
   behaviour is undefined, and the comparison can come out either way. *)
INT_MAX == 2147483647

AddOverflows(a, b) == a > 0 /\ b > 0 /\ a > INT_MAX - b

Exceeds(a, b, limit) ==
    IF AddOverflows(a, b) THEN {TRUE, FALSE} ELSE {a + b > limit}

(* The rectangle <<x, y, width, height>> that the loops of DrawRectangle fill,
   one for each outcome of the two comparisons; width or height 0 when the
   call returns before the loops. *)
ClipRect(posX, posY, width, height) ==
    IF width <= 0 \/ height <= 0 THEN {<<0, 0, 0, 0>>}
    ELSE LET w1 == IF posX < 0 THEN width + posX ELSE width
             x1 == IF posX < 0 THEN 0 ELSE posX
             h1 == IF posY < 0 THEN height + posY ELSE height
             y1 == IF posY < 0 THEN 0 ELSE posY
         IN  { LET w2 == IF ex THEN LCD_W - x1 ELSE w1
                   h2 == IF ey THEN LCD_H - y1 ELSE h1
               IN  IF w2 <= 0 \/ h2 <= 0 THEN <<0, 0, 0, 0>>
                   ELSE <<x1, y1, w2, h2>> :
               ex \in Exceeds(x1, w1, LCD_W), ey \in Exceeds(y1, h1, LCD_H) }

(* The loops of DrawRectangle over a rectangle that lies in the framebuffer. *)
FillRect(buf, r, color) ==
    [i \in DOMAIN buf |->
        IF \E y \in 0 .. r[4] - 1, x \in 0 .. r[3] - 1 :
               i = (r[2] + y) * LCD_W + r[1] + x
        THEN ColorToInt(color) ELSE buf[i]]

\* a DrawRectangle that fills one column more than asked
DrawRectangle_Wide(buf, posX, posY, width, height, color) ==
    [i \in DOMAIN buf |->
        IF \E y \in 0 .. height - 1, x \in 0 .. width :
               /\ posX + x \in 0 .. LCD_W - 1
               /\ posY + y \in 0 .. LCD_H - 1
               /\ i = (posY + y) * LCD_W + posX + x
        THEN ColorToInt(color) ELSE buf[i]]

\* DrawRectangle: the framebuffer after the call
DrawRectangle(buf, posX, posY, width, height, color) ==
    IF width <= 0 \/ height <= 0 THEN buf
    ELSE LET w1 == IF posX < 0 THEN width + posX ELSE width
             x1 == IF posX < 0 THEN 0 ELSE posX
             h1 == IF posY < 0 THEN height + posY ELSE height
             y1 == IF posY < 0 THEN 0 ELSE posY
             w2 == IF x1 + w1 > LCD_W THEN LCD_W - x1 ELSE w1
             h2 == IF y1 + h1 > LCD_H THEN LCD_H - y1 ELSE h1
         IN  IF w2 <= 0 \/ h2 <= 0 THEN buf
             ELSE [i \in DOMAIN buf |->
                     IF \E y \in 0 .. h2 - 1, x \in 0 .. w2 - 1 :
                            i = (y1 + y) * LCD_W + x1 + x
                     THEN ColorToInt(color) ELSE buf[i]]

-----------------------------------------------------------------------------
(* src/main/main.c *)

\* move_player: the update of one control that is down
ApplyControl(pl, dt, key) ==
    IF key = KEY_A THEN [pl EXCEPT !.dir = Vector2Rotate(pl.dir, -RotAngle(dt))]
    ELSE IF key = KEY_D THEN [pl EXCEPT !.dir = Vector2Rotate(pl.dir, RotAngle(dt))]
    ELSE IF key = KEY_W
    THEN [pl EXCEPT !.pos = Vector2Add(pl.pos, Vector2Scale(pl.dir, MoveDist(dt)))]
    ELSE IF key = KEY_S
    THEN [pl EXCEPT !.pos = Vector2Add(pl.pos, Vector2Scale(pl.dir, -MoveDist(dt)))]
    ELSE IF key = KEY_E
    THEN [pl EXCEPT !.pos =
             Vector2Add(pl.pos, Vector2Scale(Vector2Rotate(pl.dir, PI_UNITS \div 2),
                                             MoveDist(dt)))]
    ELSE [pl EXCEPT !.pos =
             Vector2Add(pl.pos, Vector2Scale(Vector2Rotate(pl.dir, -(PI_UNITS \div 2)),
                                             MoveDist(dt)))]

\* the updates of the controls of a sequence, one after the other
RECURSIVE ApplyControls(_, _, _)
ApplyControls(pl, dt, ks) ==
    IF ks = << >> THEN pl
    ELSE ApplyControls(ApplyControl(pl, dt, Head(ks)), dt, Tail(ks))

\* move_player: the order in which the controls are tested
ControlOrder == << KEY_A, KEY_D, KEY_W, KEY_S, KEY_E, KEY_Q >>

\* the controls of a set, in the order of move_player
InOrder(keys) == SelectSeq(ControlOrder, LAMBDA key : key \in keys)

\* a move_player that keeps the camera inside the map
move_player_Clamped(pl, dt, keys) ==
    LET r == ApplyControls(pl, dt, InOrder(keys))
        clamp(v, top) == IF v < 0 THEN 0 ELSE IF v > top THEN top ELSE v
    IN  [r EXCEPT !.pos = Vec(clamp(r.pos.x, COLS * ONE), clamp(r.pos.y, ROWS * ONE))]

\* a move_player whose translation controls exclude one another (else if)
move_player_Exclusive(pl, dt, keys) ==
    LET down(key) == key \in keys
        d1 == IF down(KEY_A) THEN Vector2Rotate(pl.dir, -RotAngle(dt)) ELSE pl.dir
        d2 == IF down(KEY_D) THEN Vector2Rotate(d1, RotAngle(dt)) ELSE d1
        step == IF down(KEY_W) THEN Vector2Scale(d2, MoveDist(dt))
                ELSE IF down(KEY_S) THEN Vector2Scale(d2, -MoveDist(dt))
                ELSE IF down(KEY_E)
                THEN Vector2Scale(Vector2Rotate(d2, PI_UNITS \div 2), MoveDist(dt))
                ELSE IF down(KEY_Q)
                THEN Vector2Scale(Vector2Rotate(d2, -(PI_UNITS \div 2)), MoveDist(dt))
                ELSE Vec(0, 0)
    IN  [pos |-> Vector2Add(pl.pos, step), dir |-> d2]

\* move_player, with the frame time dt and the set of the keys that are down
move_player(pl, dt, keys) ==
    LET down(key) == key \in keys
        d1 == IF down(KEY_A) THEN Vector2Rotate(pl.dir, -RotAngle(dt)) ELSE pl.dir
        d2 == IF down(KEY_D) THEN Vector2Rotate(d1, RotAngle(dt)) ELSE d1
        p1 == IF down(KEY_W)
              THEN Vector2Add(pl.pos, Vector2Scale(d2, MoveDist(dt))) ELSE pl.pos
        p2 == IF down(KEY_S)
              THEN Vector2Add(p1, Vector2Scale(d2, -MoveDist(dt))) ELSE p1
        p3 == IF down(KEY_E)
              THEN Vector2Add(p2, Vector2Scale(Vector2Rotate(d2, PI_UNITS \div 2),
                                               MoveDist(dt)))
              ELSE p2
        p4 == IF down(KEY_Q)
              THEN Vector2Add(p3, Vector2Scale(Vector2Rotate(d2, -(PI_UNITS \div 2)),
                                               MoveDist(dt)))
              ELSE p3
    IN  [pos |-> p4, dir |-> d2]

\* draw_minimap, lines 82-94: the rectangle of cell (i, j), when it is occupied
\* (DrawLine is an empty stub of the shim)
draw_minimap_cell(buf, m, cm, i, j) ==
    LET c == m[i][j]
        cj == j * MINIMAP_CELL_SCALE
        ci == i * MINIMAP_CELL_SCALE
    IN  IF c = 0 THEN buf
        ELSE IF c >= 128
        THEN DrawRectangle(buf, cj, ci, MINIMAP_CELL_SCALE, MINIMAP_CELL_SCALE,
                           cm[c - 128 + 1])
        ELSE DrawRectangle(buf, cj, ci, MINIMAP_CELL_SCALE, MINIMAP_CELL_SCALE,
                           MAGENTA)

\* draw_minimap, lines 80-81: the cells <<i, j>> in the order of the loops
draw_minimap_order ==
    [k \in 1 .. ROWS * COLS |-> << (k - 1) \div COLS, (k - 1) % COLS >>]

\* draw_minimap, lines 80-96: the rectangles of a sequence of cells (the cells
\* holding 0 are skipped, line 85)
RECURSIVE draw_minimap_cells(_, _, _, _)
draw_minimap_cells(buf, m, cm, cells) ==
    IF cells = << >> THEN buf
    ELSE draw_minimap_cells(
             draw_minimap_cell(buf, m, cm, Head(cells)[1], Head(cells)[2]),
             m, cm, Tail(cells))

\* draw_minimap: the framebuffer after the call (DrawRectangleLines and
\* DrawLine are empty stubs of the shim)
draw_minimap(buf, m, cm) ==
    draw_minimap_cells(
        DrawRectangle(buf, 0, 0, COLS * MINIMAP_CELL_SCALE,
                      ROWS * MINIMAP_CELL_SCALE, GetColor(70)),
        m, cm, SelectSeq(draw_minimap_order, LAMBDA c : m[c[1]][c[2]] # 0))

\* a raycast_walls that takes the ray direction as it comes
FixDir_AsIs(d) == d

\* raycast_walls, lines 104-105: a zero component of the direction
FixDir(d) == Vec(IF d.x = 0 THEN EPSILON ELSE d.x, IF d.y = 0 THEN EPSILON ELSE d.y)

\* a first sample point taken at the camera itself
FirstSample_AtCamera(pos, d) == pos

\* raycast_walls, line 106: the first sample point
FirstSample(pos, d) == Vector2Add(pos, Vector2Scale(d, EPSILON))

\* raycast_walls, line 107: the loop condition
InRange(pos, s) == Vector2Length(Vector2Subtract(s, pos)) <= MAX_RENDER_DIST * ONE

\* raycast_walls, line 108: the cell of a sample point, <<x, y>>
CellOf(s) == << Floor(s.x), Floor(s.y) >>

\* a bounds test that lets the far edges in
InMap_Closed(s) == s.x >= 0 /\ s.x <= COLS * ONE /\ s.y >= 0 /\ s.y <= ROWS * ONE

\* raycast_walls, line 109: the sample point is inside the map
InMap(s) == s.x > 0 /\ s.x < COLS * ONE /\ s.y > 0 /\ s.y < ROWS * ONE

\* map[row][col]; a read outside the array is undefined and yields any byte
MapRead(m, row, col) ==
    IF row \in 0 .. ROWS - 1 /\ col \in 0 .. COLS - 1 THEN {m[row][col]} ELSE {0, 128}

\* the history of examined cells, one cell longer (up to MaxVisited)
Visit(seq, cell) == IF Len(seq) < MaxVisited THEN Append(seq, cell) ELSE seq

\* the length of the ray up to the sample point in place of its projection
HitDist_Euclid(pl, s) ==
    FDiv(Vector2Length(Vector2Subtract(s, pl.pos)), ASPECT_RATIO)

\* the projection, not divided by the aspect ratio
HitDist_NoAspect(pl, s) == Vector2DotProduct(Vector2Subtract(s, pl.pos), pl.dir)

\* raycast_walls, line 113: the distance of a hit at sample point s
HitDist(pl, s) ==
    FDiv(Vector2DotProduct(Vector2Subtract(s, pl.pos), pl.dir), ASPECT_RATIO)

\* a height that grows with the distance: SCREEN_H * dist
SliceHeight_Product(dist) == FMul(OfInt(SCREEN_H), dist)

\* raycast_walls, line 114: float h = SCREEN_H / dist (dist = 0 gives infinity,
\* kept as 0 height here and flagged by the slice's dist)
SliceHeight(dist) == IF dist = 0 THEN 0 ELSE FDiv(OfInt(SCREEN_H), dist)

\* 1.0 / dist - 0.9 left as it is
BrightFactor_NoClamp(dist) ==
    IF dist = 0 THEN 0
    ELSE IF dist > 0 THEN Fl(10 * ONE * ONE - 9 * ONE * dist, 10 * dist)
    ELSE Fl(-(10 * ONE * ONE - 9 * ONE * dist), -(10 * dist))

\* raycast_walls, lines 115-116: 1.0 / dist - 0.9, clamped to at most 0
BrightFactor(dist) ==
    IF dist = 0 THEN 0
    ELSE LET b == IF dist > 0
                  THEN Fl(10 * ONE * ONE - 9 * ONE * dist, 10 * dist)
                  ELSE Fl(-(10 * ONE * ONE - 9 * ONE * dist), -(10 * dist))
         IN  IF b >= 0 THEN 0 ELSE b

\* the slice hung from the top of the screen: SCREEN_H - h
SliceTop_NoHalf(h) == FSub(OfInt(SCREEN_H), h)

\* raycast_walls, line 121: (SCREEN_H - h) / 2.0
SliceTop(h) == FDiv(FSub(OfInt(SCREEN_H), h), 2 * ONE)

\* raycast_walls, lines 128-135: the increment from sample point s
StepInc(s, d) ==
    LET cell == CellOf(s)
        distX == Fl(cell[1] * ONE + (IF d.x >= 0 THEN ONE ELSE -EPSILON) - s.x, 1)
        distY == Fl(cell[2] * ONE + (IF d.y >= 0 THEN ONE ELSE -EPSILON) - s.y, 1)
    IN  IF Abs(FDiv(distX, d.x)) < Abs(FDiv(distY, d.y))
        THEN Vec(distX, FDiv(FMul(distX, d.y), d.x))
        ELSE Vec(FDiv(FMul(distY, d.x), d.y), distY)

-----------------------------------------------------------------------------
(* The frame loop of main *)

\* while (!WindowShouldClose()): the shim returns 0
LoopTest ==
    /\ pc = "loop"
    /\ ~WindowShouldClose
    /\ frame < MaxFrames
    /\ frame' = frame + 1
    /\ pc' = "move"
    /\ UNCHANGED << map, color_map, DEBUG, p, clock, last_time_us, slice_x, alpha, dir, rs, visited,
                    readIdx, slice, slices, fb >>

\* a move_player that empties the map cell the camera moves into
MovePlayer_Carves ==
    /\ pc = "move"
    /\ \E levelA \in {0, 1}, levelD \in {0, 1} :
          LET t == GetFrameTime(clock, last_time_us)
              keys == { key \in {KEY_A, KEY_D, KEY_W, KEY_S, KEY_E, KEY_Q} :
                          IsKeyDown(key, levelA, levelD) }
          IN  /\ p' = move_player(p, t[1], keys)
              /\ last_time_us' = t[2]
    /\ map' = IF InMap(p'.pos)
              THEN [map EXCEPT ![CellOf(p'.pos)[2]][CellOf(p'.pos)[1]] = 0]
              ELSE map
    /\ pc' = "begin"
    /\ UNCHANGED << color_map, DEBUG, frame, clock, slice_x, alpha, dir, rs, visited,
                    readIdx, slice, slices, fb >>

\* move_player(&p), the two buttons at any levels
MovePlayer ==
    /\ pc = "move"
    /\ \E levelA \in {0, 1}, levelD \in {0, 1} :
          LET t == GetFrameTime(clock, last_time_us)
              keys == { key \in {KEY_A, KEY_D, KEY_W, KEY_S, KEY_E, KEY_Q} :
                          IsKeyDown(key, levelA, levelD) }
          IN  /\ p' = move_player(p, t[1], keys)
              /\ last_time_us' = t[2]
    /\ pc' = "begin"
    /\ UNCHANGED << map, color_map, DEBUG, frame, clock, slice_x, alpha, dir, rs, visited, readIdx,
                    slice, slices, fb >>

\* BeginDrawing(); ClearBackground(BLACK)
ClearBackground ==
    /\ pc = "begin"
    /\ fb' = [i \in DOMAIN fb |-> ColorToInt(BLACK)]
    /\ pc' = "draw"
    /\ UNCHANGED << map, color_map, DEBUG, p, frame, clock, last_time_us, slice_x, alpha, dir, rs,
                    visited, readIdx, slice, slices >>

\* draw_walls(p): the loop's initialisation
DrawWallsBegin ==
    /\ pc = "draw"
    /\ alpha' = -(FOV_ANGLE \div 2)
    /\ slice_x' = 0
    /\ slice' = NoSlice
    /\ slices' = << >>
    /\ pc' = "walls"
    /\ UNCHANGED << map, color_map, DEBUG, p, frame, clock, last_time_us, dir, rs, visited, readIdx, fb >>

\* a raycast_walls that takes the Player by reference and replaces the zero
\* components of the player's own direction
CastBegin_ByReference ==
    /\ pc = "walls"
    /\ slice_x < SCREEN_W
    /\ p' = [p EXCEPT !.dir = FixDir(p.dir)]
    /\ dir' = FixDir(Vector2Rotate(p'.dir, alpha))
    /\ rs' = FirstSample(p.pos, dir')
    /\ visited' = << >>
    /\ readIdx' = {}
    /\ slice' = NoSlice
    /\ pc' = "cast"
    /\ UNCHANGED << map, color_map, DEBUG, frame, clock, last_time_us, slice_x, alpha,
                    slices, fb >>

\* draw_walls: one more column; raycast_walls is entered
CastBegin ==
    /\ pc = "walls"
    /\ slice_x < SCREEN_W
    /\ dir' = FixDir(Vector2Rotate(p.dir, alpha))
    /\ rs' = FirstSample(p.pos, dir')
    /\ visited' = << >>
    /\ readIdx' = {}
    /\ slice' = NoSlice
    /\ pc' = "cast"
    /\ UNCHANGED << map, color_map, DEBUG, p, frame, clock, last_time_us, slice_x, alpha, slices, fb >>

\* draw_walls: alpha += alpha_step; slice_x += RAY_RES
NextColumn ==
    /\ alpha' = alpha + (FOV_ANGLE * RAY_RES) \div SCREEN_W
    /\ slice_x' = slice_x + RAY_RES
    /\ pc' = "walls"

\* raycast_walls: the loop condition fails, no wall within MAX_RENDER_DIST
CastExit ==
    /\ pc = "cast"
    /\ ~InRange(p.pos, rs)
    /\ slice' = [kind |-> "miss", x |-> slice_x, from |-> p.pos, cam |-> p.dir,
                 ray |-> Vector2Rotate(p.dir, alpha), alpha |-> alpha]
    /\ slices' = Append(slices, slice')
    /\ NextColumn
    /\ UNCHANGED << map, color_map, DEBUG, p, frame, clock, last_time_us, dir, rs, visited, readIdx, fb >>

\* a raycast_walls that draws a texture cell as a slice in a placeholder colour
CastHit_Placeholder ==
    /\ pc = "cast"
    /\ InRange(p.pos, rs)
    /\ InMap(rs)
    /\ LET cell == CellOf(rs)
       IN  \E map_cell \in MapRead(map, cell[2], cell[1]) :
             /\ map_cell # 0
             /\ visited' = Visit(visited, cell)
             /\ readIdx' = readIdx \cup {<< cell[2], cell[1] >>}
             /\ LET dist == HitDist(p, rs)
                    h == SliceHeight(dist)
                    c == IF map_cell >= 128
                         THEN ColorBrightness(color_map[map_cell - 128 + 1],
                                              BrightFactor(dist))
                         ELSE MAGENTA
                IN  /\ fb' = DrawRectangle(fb, slice_x, Trunc(SliceTop(h)),
                                           RAY_RES, Trunc(h), c)
                    /\ slice' = [kind |-> IF map_cell >= 128 THEN "color" ELSE "texture",
                                 x |-> slice_x, from |-> p.pos, cam |-> p.dir,
                                 ray |-> Vector2Rotate(p.dir, alpha),
                                 alpha |-> alpha, cell |-> cell,
                                 code |-> map_cell, at |-> rs, dist |-> dist,
                                 h |-> h, top |-> SliceTop(h),
                                 factor |-> BrightFactor(dist), color |-> c,
                                 rect |-> << slice_x, Trunc(SliceTop(h)),
                                             RAY_RES, Trunc(h) >>]
    /\ slices' = Append(slices, slice')
    /\ NextColumn
    /\ UNCHANGED << map, color_map, DEBUG, p, frame, clock, last_time_us, dir, rs >>

\* raycast_walls: the sample point is in an occupied cell
CastHit ==
    /\ pc = "cast"
    /\ InRange(p.pos, rs)
    /\ InMap(rs)
    /\ LET cell == CellOf(rs)
       IN  \E map_cell \in MapRead(map, cell[2], cell[1]) :
             /\ map_cell # 0
             /\ visited' = Visit(visited, cell)
             /\ readIdx' = readIdx \cup {<< cell[2], cell[1] >>}
             /\ LET dist == HitDist(p, rs)
                    h == SliceHeight(dist)
                    bright_factor == BrightFactor(dist)
                IN  IF map_cell >= 128
                    THEN LET c == ColorBrightness(color_map[map_cell - 128 + 1],
                                                  bright_factor)
                         IN  /\ fb' = DrawRectangle(fb, slice_x, Trunc(SliceTop(h)),
                                                    RAY_RES, Trunc(h), c)
                             /\ slice' = [kind |-> "color", x |-> slice_x,
                                          from |-> p.pos, cam |-> p.dir,
                                          ray |-> Vector2Rotate(p.dir, alpha),
                                          alpha |-> alpha, cell |-> cell,
                                          code |-> map_cell, at |-> rs, dist |-> dist,
                                          h |-> h, top |-> SliceTop(h),
                                          factor |-> bright_factor, color |-> c,
                                          rect |-> << slice_x, Trunc(SliceTop(h)),
                                                      RAY_RES, Trunc(h) >>]
                    ELSE /\ fb' = fb
                         /\ slice' = [kind |-> "texture", x |-> slice_x,
                                      from |-> p.pos, cam |-> p.dir,
                                      ray |-> Vector2Rotate(p.dir, alpha),
                                      alpha |-> alpha, cell |-> cell,
                                      code |-> map_cell, at |-> rs, dist |-> dist]
    /\ slices' = Append(slices, slice')
    /\ NextColumn
    /\ UNCHANGED << map, color_map, DEBUG, p, frame, clock, last_time_us, dir, rs >>

\* raycast_walls: the sample point is in no occupied cell, step to the next one
CastStep ==
    /\ pc = "cast"
    /\ InRange(p.pos, rs)
    /\ LET cell == CellOf(rs)
       IN  /\ IF InMap(rs)
              THEN /\ \E map_cell \in MapRead(map, cell[2], cell[1]) : map_cell = 0
                   /\ readIdx' = readIdx \cup {<< cell[2], cell[1] >>}
              ELSE readIdx' = readIdx
           /\ visited' = Visit(visited, cell)
           /\ rs' = Vector2Add(rs, StepInc(rs, dir))
    /\ UNCHANGED << map, color_map, DEBUG, p, pc, frame, clock, last_time_us, slice_x, alpha, dir,
                    slice, slices, fb >>

\* a draw_walls that returns one column early
DrawWallsEnd_Early ==
    /\ pc = "walls"
    /\ slice_x >= SCREEN_W - RAY_RES
    /\ pc' = IF DEBUG THEN "minimap" ELSE "end"
    /\ UNCHANGED << map, color_map, DEBUG, p, frame, clock, last_time_us, slice_x, alpha, dir, rs,
                    visited, readIdx, slice, slices, fb >>

\* draw_walls returns; with DEBUG the minimap is drawn next
DrawWallsEnd ==
    /\ pc = "walls"
    /\ slice_x >= SCREEN_W
    /\ pc' = IF DEBUG THEN "minimap" ELSE "end"
    /\ UNCHANGED << map, color_map, DEBUG, p, frame, clock, last_time_us, slice_x, alpha, dir, rs,
                    visited, readIdx, slice, slices, fb >>

\* EndDrawing(): the frame is sent and paced; the timer has advanced
EndDrawing ==
    /\ pc = "end"
    /\ \E dt \in DtSet : clock' = clock + dt
    /\ pc' = "loop"
    /\ UNCHANGED << map, color_map, DEBUG, p, frame, last_time_us, slice_x, alpha, dir, rs, visited,
                    readIdx, slice, slices, fb >>

Next ==
    \/ LoopTest
    \/ MovePlayer
    \/ ClearBackground
    \/ DrawWallsBegin
    \/ CastBegin
    \/ CastExit
    \/ CastHit
    \/ CastStep
    \/ DrawWallsEnd
    \/ EndDrawing

Spec == Init /\ [][Next]_vars

\* a draw_minimap_player that is handed the player itself and scales its
\* position to minimap pixels in place
DrawMinimap_InPlace ==
    /\ pc = "minimap"
    /\ fb' = draw_minimap(fb, map, color_map)
    /\ p' = [p EXCEPT !.pos = Vector2Scale(p.pos, OfInt(MINIMAP_CELL_SCALE))]
    /\ pc' = "end"
    /\ UNCHANGED << map, color_map, DEBUG, frame, clock, last_time_us, slice_x,
                    alpha, dir, rs, visited, readIdx, slice, slices >>

\* #ifdef DEBUG: draw_minimap(); draw_minimap_player(p.pos), whose DrawCircleV
\* is an empty stub of the shim.  The DrawLineEx of raycast_walls (lines
\* 137-143) is an empty stub too and leaves no trace in the state.
DrawMinimap ==
    /\ pc = "minimap"
    /\ fb' = draw_minimap(fb, map, color_map)
    /\ pc' = "end"
    /\ UNCHANGED << map, color_map, DEBUG, p, frame, clock, last_time_us, slice_x,
                    alpha, dir, rs, visited, readIdx, slice, slices >>

DebugNext == Next \/ DrawMinimap

DebugSpec == DebugInit /\ [][DebugNext]_vars

\* levels that use the texture codes of line 41: init_game with one more
\* assignment, map[1][3] = 1 (in front of the cells [1][4] and [1][5]) or
\* map[2][4] = 127 (in front of the cell [2][5])
TexturedMaps ==
    { [init_game EXCEPT ![1][3] = 1], [init_game EXCEPT ![2][4] = 127] }

\* camera poses of a later frame that look at the textured cells
TexturePoses ==
    { [pos |-> Vec(ONE + ONE \div 2, ONE + ONE \div 2), dir |-> Vec(ONE, 0)],
      [pos |-> Vec(2 * ONE + ONE \div 2, 2 * ONE + ONE \div 2), dir |-> Vec(ONE, 0)],
      [pos |-> Vec(4 * ONE + ONE \div 2, 4 * ONE + ONE \div 2), dir |-> Vec(0, -ONE)] }

\* main with such a level, at the start of the run or in a later frame
TextureInit ==
    /\ map \in TexturedMaps
    /\ color_map = InitColorMap
    /\ DEBUG = FALSE
    /\ InitMain \/ (InitFrame /\ p \in TexturePoses)
    /\ slice_x = 0
    /\ alpha = 0
    /\ dir = NoVec
    /\ rs = NoVec
    /\ visited = << >>
    /\ readIdx = {}
    /\ slice = NoSlice
    /\ slices = << >>
    /\ fb = [i \in 0 .. LCD_W * LCD_H - 1 |-> 0]

TextureSpec == TextureInit /\ [][Next]_vars

-----------------------------------------------------------------------------
(* The older variant of the renderer, in pixels of the minimap:
   src/unnamed/part_001 *)

MINIMAP_CELL_RES == 25
MINIMAP_W == COLS * MINIMAP_CELL_RES
MINIMAP_H == ROWS * MINIMAP_CELL_RES

\* cast_ray: the bounds test of a sample point
cast_ray_InMap(s) ==
    s.x > 0 /\ s.x < MINIMAP_W * ONE /\ s.y > 0 /\ s.y < MINIMAP_H * ONE

\* cast_ray, line 97: the loop condition, Vector2Length(rs) <= MAX_RENDER_DIST
\* with MAX_RENDER_DIST = MINIMAP_CELL_RES * 20.0, for a sample point given in
\* cells (a point farther than 21 cells from an axis is out of range)
cast_ray_InRange(s) ==
    /\ Abs(s.x) <= 21 * ONE
    /\ Abs(s.y) <= 21 * ONE
    /\ Vector2Length(s) <= 20 * ONE

\* cast_ray: the cell of a sample point, <<x, y>>
cast_ray_CellOf(s) ==
    << Floor(FDiv(s.x, OfInt(MINIMAP_CELL_RES))),
       Floor(FDiv(s.y, OfInt(MINIMAP_CELL_RES))) >>

\* cast_ray: the distance of a hit at sample point s
cast_ray_HitDist(pl, s) ==
    FDiv(Vector2DotProduct(Vector2Subtract(s, pl.pos), pl.dir),
         FMul(OfInt(MINIMAP_CELL_RES), ASPECT_RATIO))

\* cast_ray: 1.0 / dist - 0.75, clamped to at most 0
cast_ray_BrightFactor(dist) ==
    IF dist = 0 THEN 0
    ELSE LET b == IF dist > 0
                  THEN Fl(4 * ONE * ONE - 3 * ONE * dist, 4 * dist)
                  ELSE Fl(-(4 * ONE * ONE - 3 * ONE * dist), -(4 * dist))
         IN  IF b >= 0 THEN 0 ELSE b

\* the representable coordinates next to the cell boundaries of the minimap
EdgeCoords ==
    { Fl(c * MINIMAP_CELL_RES * ONE + k * (ONE \div 64), 1) :
        c \in 0 .. COLS, k \in -16 .. 16 }

-----------------------------------------------------------------------------
(* Properties *)

hitKinds == {"color", "texture"}
IsHit(sl) == sl.kind \in hitKinds

\* the sample point lies strictly inside the world range
WorldRange(s) == 0 < s.x /\ s.x < COLS * ONE /\ 0 < s.y /\ s.y < ROWS * ONE

\* two cells differ by exactly 1 in exactly one coordinate
Adjacent(a, b) == Abs(a[1] - b[1]) + Abs(a[2] - b[2]) = 1

\* C1: the cells raycast_walls examines are visited one grid step at a time:
\* two cells examined one after the other differ by exactly 1 in exactly one
\* coordinate.
C1_UnitSteps ==
    \A i \in 1 .. Len(visited) - 1 : Adjacent(visited[i], visited[i + 1])

\* C2: raycast_walls never stalls: every pass through its loop that does not
\* return moves the sample point, for every camera pose, inside or outside the
\* map.
C2_NoStall == [][pc = "cast" /\ pc' = "cast" => rs' # rs]_vars

\* cast_ray: every sample point that passes the bounds test indexes the map
\* inside its rows and columns
cast_ray_ReadsInside ==
    \A x \in EdgeCoords, y \in {ONE, (MINIMAP_H - 1) * ONE} :
        LET s == Vec(x, y)
            t == Vec(y, x)
        IN  /\ cast_ray_InMap(s) => cast_ray_CellOf(s)[1] \in 0 .. COLS - 1
            /\ cast_ray_InMap(t) => cast_ray_CellOf(t)[2] \in 0 .. ROWS - 1

\* C3: a sample point outside the world range causes no map read and is never
\* taken for a wall, and every map read has 0 <= row < ROWS and 0 <= col < COLS,
\* in raycast_walls and in cast_ray.
C3_ReadsInside ==
    [][ /\ \A ix \in readIdx' : ix[1] \in 0 .. ROWS - 1 /\ ix[2] \in 0 .. COLS - 1
        /\ (pc = "cast" /\ ~WorldRange(rs)) => (readIdx' = readIdx /\ ~IsHit(slice'))
        /\ cast_ray_ReadsInside ]_vars

\* a cast has read the map and then left it: the sample point examined last
\* and the current one are outside the world range
C3_Witness ==
    /\ pc = "cast"
    /\ readIdx # {}
    /\ ~WorldRange(rs)
    /\ Len(visited) > 1
    /\ visited[Len(visited)][1] \notin 0 .. COLS - 1

\* C4: every slice raycast_walls draws has a hit distance strictly above 0,
\* for every pose and every column ray, the camera inside an occupied cell
\* included.
C4_DistPositive == IsHit(slice) => slice.dist > 0

\* the camera stands inside the occupied far corner cell and the cast hit at its
\* first sample point
C4_Witness ==
    /\ IsHit(slice)
    /\ CellOf(slice.from) = slice.cell
    /\ slice.cell = << COLS - 1, ROWS - 1 >>
    /\ slice.dist > 0

\* the projection of (at - from) onto the camera direction, exactly, in units
\* of 1 / (ONE * ONE)
ExactProj(sl) ==
    (sl.at.x - sl.from.x) * sl.cam.x + (sl.at.y - sl.from.y) * sl.cam.y

\* the camera looks along a grid axis
AxisDir(d) == (d.x = 0) # (d.y = 0)

\* a point of the world, in minimap pixels
Pixels(v) == Vec(MINIMAP_CELL_RES * v.x, MINIMAP_CELL_RES * v.y)

\* two slices whose sample points lie on one grid line perpendicular to the
\* camera direction
SameFace(a, b) ==
    /\ AxisDir(a.cam)
    /\ a.cam.y = 0 => a.at.x = b.at.x
    /\ a.cam.x = 0 => a.at.y = b.at.y

\* C5: the hit distance is the projection of (rs - pos) onto the camera
\* direction, divided by the cell size times ASPECT_RATIO (cell size 1 in
\* raycast_walls, 25 in cast_ray), so the columns of one frame that hit one
\* wall face perpendicular to the camera direction report one distance.
C5_Projection ==
    /\ IsHit(slice) =>
          /\ Abs(slice.dist * ASPECT_RATIO - ExactProj(slice))
                <= Abs(ExactProj(slice)) \div 64 + 2 * ONE
          /\ Abs(cast_ray_HitDist([pos |-> Pixels(slice.from), dir |-> slice.cam],
                                  Pixels(slice.at)) - slice.dist)
                <= 4 * Quantum(slice.dist)
    /\ \A i, j \in DOMAIN slices :
          (IsHit(slices[i]) /\ IsHit(slices[j]) /\ SameFace(slices[i], slices[j]))
              => slices[i].dist = slices[j].dist

\* two columns of a frame hit one wall face at different places and report one
\* distance
C5_Witness ==
    \E i, j \in DOMAIN slices :
        /\ IsHit(slices[i]) /\ IsHit(slices[j])
        /\ SameFace(slices[i], slices[j])
        /\ slices[i].at # slices[j].at
        /\ slices[i].dist = slices[j].dist
        /\ slices[i].dist > ONE

Sign(a) == IF a > 0 THEN 1 ELSE IF a < 0 THEN -1 ELSE 0

InGrid(c) == c[1] \in 0 .. COLS - 1 /\ c[2] \in 0 .. ROWS - 1

\* the cell next to the camera's cell in the camera direction
FacedCell(sl) ==
    LET c == CellOf(sl.from)
    IN  << c[1] + Sign(sl.cam.x), c[2] + Sign(sl.cam.y) >>

\* the distance from the camera to the side of its cell it looks at
BoundaryDist(sl) ==
    LET c == CellOf(sl.from)
    IN  IF sl.cam.x > 0 THEN (c[1] + 1) * ONE - sl.from.x
        ELSE IF sl.cam.x < 0 THEN sl.from.x - c[1] * ONE
        ELSE IF sl.cam.y > 0 THEN (c[2] + 1) * ONE - sl.from.y
        ELSE sl.from.y - c[2] * ONE

\* the cast of the middle ray of a camera that stands in an empty cell and
\* looks along a grid axis at an occupied cell next to its own
FacesWall(sl) ==
    /\ sl.kind # "none"
    /\ sl.alpha = 0
    /\ AxisDir(sl.cam)
    /\ WorldRange(sl.from)
    /\ map[CellOf(sl.from)[2]][CellOf(sl.from)[1]] = 0
    /\ InGrid(FacedCell(sl))
    /\ map[FacedCell(sl)[2]][FacedCell(sl)[1]] # 0

\* the camera is farther than 2 * EPSILON from the two sides of its cell that
\* run along the camera direction
LateralClear(sl) ==
    LET c == CellOf(sl.from)
        u == IF sl.cam.y = 0 THEN sl.from.y - c[2] * ONE ELSE sl.from.x - c[1] * ONE
    IN  u > 2 * EPSILON /\ ONE - u > 2 * EPSILON

Frac(n, d) == IF d > 0 THEN << n, d >> ELSE << -n, -d >>
FracLe(a, b) == a[1] * b[2] <= b[1] * a[2]
FracLt(a, b) == a[1] * b[2] < b[1] * a[2]
FracMax(a, b) == IF FracLe(a, b) THEN b ELSE a
FracMin(a, b) == IF FracLe(a, b) THEN a ELSE b

\* a ray parameter beyond every cell of the model
FarT == << 1048576, 1 >>

\* the parameters t at which the line c + t * e enters and leaves [lo, hi]
SlabEnter(lo, hi, c, e) ==
    IF e = 0 THEN << 0, 1 >> ELSE FracMin(Frac(lo - c, e), Frac(hi - c, e))
SlabExit(lo, hi, c, e) ==
    IF e = 0 THEN (IF lo <= c /\ c <= hi THEN FarT ELSE << -1, 1 >>)
    ELSE FracMax(Frac(lo - c, e), Frac(hi - c, e))

\* the parameters at which the ray from + t * d, t >= 0, enters and leaves a
\* cell
RayEnter(from, d, cell) ==
    FracMax(<< 0, 1 >>,
            FracMax(SlabEnter(cell[1] * ONE, (cell[1] + 1) * ONE, from.x, d.x),
                    SlabEnter(cell[2] * ONE, (cell[2] + 1) * ONE, from.y, d.y)))
RayExit(from, d, cell) ==
    FracMin(SlabExit(cell[1] * ONE, (cell[1] + 1) * ONE, from.x, d.x),
            SlabExit(cell[2] * ONE, (cell[2] + 1) * ONE, from.y, d.y))

\* the ray meets the cell, its boundary included
RayTouches(from, d, cell) == FracLe(RayEnter(from, d, cell), RayExit(from, d, cell))

\* the ray runs through the inside of the cell
RayCrosses(from, d, cell) ==
    /\ FracLt(RayEnter(from, d, cell), RayExit(from, d, cell))
    /\ d.x = 0 => (cell[1] * ONE < from.x /\ from.x < (cell[1] + 1) * ONE)
    /\ d.y = 0 => (cell[2] * ONE < from.y /\ from.y < (cell[2] + 1) * ONE)

\* the occupied cells of the map, <<x, y>>
Occupied ==
    { c \in (0 .. COLS - 1) \X (0 .. ROWS - 1) : map[c[2]][c[1]] # 0 }

\* C7: a ray with no occupied cell on it reports no hit and draws no slice: a
\* cast that hits has an occupied cell on the column's ray.
C7_NoWallNoHit ==
    IsHit(slice) => \E c \in Occupied : RayTouches(slice.from, slice.ray, c)

\* C8: the slice shows the first occupied cell along the ray, in the palette
\* colour color_map[c - 128] of its code c: no other occupied cell is crossed
\* by the ray before it reaches the cell that was hit.
C8_Nearest ==
    (slice.kind = "color" /\ RayTouches(slice.from, slice.ray, slice.cell)) =>
        /\ slice.code = map[slice.cell[2]][slice.cell[1]]
        /\ slice.color = ColorBrightness(color_map[slice.code - 128 + 1], slice.factor)
        /\ \A c \in Occupied \ {slice.cell} :
              ~(/\ RayCrosses(slice.from, slice.ray, c)
                /\ FracLe(RayExit(slice.from, slice.ray, c),
                          RayEnter(slice.from, slice.ray, slice.cell)))

\* the pixels of the framebuffer a rectangle <<x, y, w, h>> covers
RectPixels(r) ==
    { y * LCD_W + x : x \in (r[1] .. r[1] + r[3] - 1) \cap (0 .. LCD_W - 1),
                      y \in (r[2] .. r[2] + r[4] - 1) \cap (0 .. LCD_H - 1) }

\* C9: a slice of distance d has the height h = SCREEN_H / d, is centred
\* vertically with its top at (SCREEN_H - h) / 2, and is drawn at the column
\* slice_x with the width RAY_RES.
C9_SliceGeometry ==
    slice.kind = "color" =>
        /\ Abs(slice.h * slice.dist - SCREEN_H * ONE * ONE) <= SCREEN_H * ONE * 2
        /\ Abs(2 * slice.top + slice.h - SCREEN_H * ONE)
              <= Quantum(Abs(SCREEN_H * ONE - slice.h))
        /\ slice.rect = << slice.x, Trunc(slice.top), RAY_RES, Trunc(slice.h) >>
        /\ pc = "walls" =>
              /\ slice.x = slice_x - RAY_RES
              /\ \A i \in RectPixels(slice.rect) : fb[i] = ColorToInt(slice.color)

\* a slice lower than the screen, drawn right of the first column
C9_Witness ==
    /\ slice.kind = "color"
    /\ pc = "walls"
    /\ slice.x > 0
    /\ slice.top > ONE
    /\ Cardinality(RectPixels(slice.rect)) = RAY_RES * Trunc(slice.h)

\* the channels of a shaded colour lie between 0 and those of its base colour
Darkened(c, base) ==
    /\ 0 <= c.r /\ c.r <= base.r
    /\ 0 <= c.g /\ c.g <= base.g
    /\ 0 <= c.b /\ c.b <= base.b

\* C10: the brightness factor of a slice of distance d is 1 / d - k, replaced
\* by 0 when that is not negative (k = 0.9 in raycast_walls, 0.75 in cast_ray),
\* and no channel of the shaded colour is above that of the base colour or
\* below 0.
C10_Brightness ==
    slice.kind = "color" =>
        LET base == color_map[slice.code - 128 + 1]
            d == slice.dist
            f == cast_ray_BrightFactor(d)
        IN  /\ slice.factor <= 0
            /\ 10 * ONE >= 9 * d => slice.factor = 0
            /\ 10 * ONE < 9 * d =>
                  Abs(slice.factor * 10 * d - (10 * ONE * ONE - 9 * ONE * d)) <= 10 * d
            /\ Darkened(slice.color, base)
            /\ f <= 0
            /\ 4 * ONE >= 3 * d => f = 0
            /\ 4 * ONE < 3 * d =>
                  Abs(f * 4 * d - (4 * ONE * ONE - 3 * ONE * d)) <= 4 * d
            /\ Darkened(ColorBrightness(base, f), base)

\* a slice far enough to be darkened: a negative factor and a red channel
\* strictly between 0 and that of the base colour
C10_Witness ==
    /\ slice.kind = "color"
    /\ slice.factor < 0
    /\ 0 < slice.color.r
    /\ slice.color.r < color_map[slice.code - 128 + 1].r

\* hit distances to compare a slice with: from a sixty-fourth of a cell to
\* sixteen cells, around the distance 10/9 where the shading begins
DistSamples ==
    { ONE \div 64, ONE \div 2, ONE, (10 * ONE) \div 9, (10 * ONE) \div 9 + 1,
      2 * ONE, 5 * ONE, 16 * ONE }

\* no channel of colour a is above that of colour b
NotBrighter(a, b) == a.r <= b.r /\ a.g <= b.g /\ a.b <= b.b

\* the projector at distances d1 <= d2, for the base colour: the farther slice
\* is not higher and not brighter
Monotone(d1, d2, base) ==
    /\ SliceHeight(d2) <= SliceHeight(d1)
    /\ Trunc(SliceHeight(d2)) <= Trunc(SliceHeight(d1))
    /\ NotBrighter(ColorBrightness(base, BrightFactor(d2)),
                   ColorBrightness(base, BrightFactor(d1)))

\* C11: for one cell appearance and hit distances 0 < d1 <= d2, the slice for
\* d2 is not higher than the slice for d1 and no channel of its shaded colour is
\* above that of the slice for d1.
C11_Monotone ==
    /\ \A i, j \in DOMAIN slices :
          (/\ slices[i].kind = "color" /\ slices[j].kind = "color"
           /\ slices[i].code = slices[j].code
           /\ slices[i].dist <= slices[j].dist)
          => /\ slices[j].h <= slices[i].h
             /\ NotBrighter(slices[j].color, slices[i].color)
    /\ slice.kind = "color" =>
          LET base == color_map[slice.code - 128 + 1]
          IN  /\ Monotone(slice.dist, slice.dist + Quantum(slice.dist), base)
              /\ \A d \in DistSamples :
                    /\ d <= slice.dist => Monotone(d, slice.dist, base)
                    /\ slice.dist <= d => Monotone(slice.dist, d, base)

\* two columns of a frame hit cells of one colour at different distances: the
\* farther slice is lower and darker
C11_Witness ==
    \E i, j \in DOMAIN slices :
        /\ slices[i].kind = "color" /\ slices[j].kind = "color"
        /\ slices[i].code = slices[j].code
        /\ slices[i].dist < slices[j].dist
        /\ slices[j].h < slices[i].h
        /\ slices[j].color.r < slices[i].color.r

\* the translation controls of move_player
TransKeys == {KEY_W, KEY_S, KEY_E, KEY_Q}

\* the displacement of the position by move_player, exactly
Disp(pl, dt, keys) ==
    LET q == move_player(pl, dt, keys).pos
    IN  Vec(q.x - pl.pos.x, q.y - pl.pos.y)

\* the rounding allowed to a position reached from pl in a step of dt: two
\* spacings of the format at that distance from the origin
MoveSlack(pl, dt) == 2 * Quantum(Abs(pl.pos.x) + Abs(pl.pos.y) + 2 * MoveDist(dt))

\* two vectors are equal up to the rounding e of each coordinate
Near(a, b, e) == Abs(a.x - b.x) <= e /\ Abs(a.y - b.y) <= e

\* C12: the translation controls of move_player are additive: with two of them
\* active in one frame the displacement of the position is, up to the rounding
\* of the additions, the vector sum of the displacements with each one alone.
C12_Additive ==
    pc \in {"move", "draw"} =>
        \A dt \in DtSet, k1 \in TransKeys : \A k2 \in TransKeys \ {k1} :
            LET a == Disp(p, dt, {k1})
                b == Disp(p, dt, {k2})
            IN  Near(Disp(p, dt, {k1, k2}), Vec(a.x + b.x, a.y + b.y), MoveSlack(p, dt))

\* a camera looking along no grid axis moves forward and strafes right in
\* one frame, farther along both axes than the rounding, by the sum of the two
\* displacements
C12_Witness ==
    /\ pc = "move"
    /\ frame > 1
    /\ p.dir.x # 0 /\ p.dir.y # 0
    /\ LET a == Disp(p, DtTurn, {KEY_W})
           b == Disp(p, DtTurn, {KEY_E})
           c == Disp(p, DtTurn, {KEY_W, KEY_E})
       IN  /\ Near(c, Vec(a.x + b.x, a.y + b.y), MoveSlack(p, DtTurn))
           /\ ~Near(c, a, MoveSlack(p, DtTurn))
           /\ ~Near(c, b, MoveSlack(p, DtTurn))

\* the controls of move_player
Keys == {KEY_A, KEY_D, KEY_W, KEY_S, KEY_E, KEY_Q}

\* two poses are equal up to the rounding of a step of dt from pl
SamePose(a, b, pl, dt) ==
    /\ Near(a.pos, b.pos, MoveSlack(pl, dt))
    /\ Near(a.dir, b.dir, 2)

\* C13: the updates of the controls that are active in a frame give one pose
\* whatever the order they are applied in, a rotation together with a
\* translation included: the order of move_player and any other order agree.
C13_AnyOrder ==
    pc = "move" =>
        \A dt \in DtSet, k1 \in Keys : \A k2 \in Keys \ {k1} :
            /\ SamePose(move_player(p, dt, {k1, k2}),
                        ApplyControls(p, dt, << k1, k2 >>), p, dt)
            /\ SamePose(move_player(p, dt, {k1, k2}),
                        ApplyControls(p, dt, << k2, k1 >>), p, dt)

\* C14: move_player never consults the map and cannot fail: whatever the map
\* holds, the pose it leaves is the one of the plain updates of the controls
\* that are down, neither clamped to the map nor stopped by an occupied cell,
\* the map is as it was and main goes on to draw the frame.
C14_NoCollision ==
    [][ pc = "move" =>
          /\ \E levelA \in {0, 1}, levelD \in {0, 1} :
                p' = ApplyControls(p, GetFrameTime(clock, last_time_us)[1],
                                   InOrder({ key \in Keys :
                                               IsKeyDown(key, levelA, levelD) }))
          /\ map' = map
          /\ pc' = "begin" ]_vars

\* move_player has just moved the camera into an occupied cell of the map
C14_Witness ==
    /\ pc = "begin"
    /\ frame > 1
    /\ WorldRange(p.pos)
    /\ map[CellOf(p.pos)[2]][CellOf(p.pos)[1]] # 0

\* the columns of a frame: slice_x = 0, RAY_RES, ... below SCREEN_W
Columns == { x \in 0 .. SCREEN_W - 1 : x % RAY_RES = 0 }

\* the steps of a frame, each with the step that follows it
FrameOrder ==
    { << "loop", "move" >>, << "move", "begin" >>, << "begin", "draw" >>,
      << "draw", "walls" >>, << "walls", "cast" >>, << "cast", "cast" >>,
      << "cast", "walls" >>, << "walls", "end" >>, << "end", "loop" >> }

Stalled ==
    /\ pc = "cast"
    /\ InRange(p.pos, rs)
    /\ ~(InMap(rs) /\ map[CellOf(rs)[2]][CellOf(rs)[1]] # 0)
    /\ Vector2Add(rs, StepInc(rs, dir)) = rs

\* C16: main leaves its loop only when WindowShouldClose() is observed, which
\* is tested once a frame between two frames, and with the signal false the
\* loop goes on running frames for ever: a frame is begun only from the loop
\* test, and no frame is held in a state that the program can only repeat.
C16_FramesGoOn ==
    /\ pc \in {"loop", "move", "begin", "draw", "walls", "cast", "end"}
    /\ ~WindowShouldClose
    /\ pc = "move" => frame >= 1
    /\ ~Stalled

\* C17: draw_walls casts N = SCREEN_W / RAY_RES rays a frame, one for each
\* column slice_x = 0, RAY_RES, 2 * RAY_RES, ... below SCREEN_W, in increasing
\* order; the ray of a column is the camera direction rotated by the offset of
\* the column, and the offsets are evenly spaced from -FOV_ANGLE / 2 at the
\* first column to +FOV_ANGLE / 2 at the last.
C17_Sweep ==
    pc = "end" =>
        /\ Len(slices) = Cardinality(Columns)
        /\ \A i \in DOMAIN slices :
              /\ slices[i].x = (i - 1) * RAY_RES
              /\ slices[i].ray = Vector2Rotate(slices[i].cam, slices[i].alpha)
        /\ \A i \in 2 .. Len(slices) - 1 :
              slices[i + 1].alpha - slices[i].alpha = slices[i].alpha - slices[i - 1].alpha
        /\ slices[1].alpha = -(FOV_ANGLE \div 2)
        /\ slices[Len(slices)].alpha = FOV_ANGLE \div 2

\* the framebuffer after the slices of a sequence of cast outcomes are drawn
\* into buf, one after the other
RECURSIVE DrawAll(_, _)
DrawAll(buf, outcomes) ==
    IF outcomes = << >> THEN buf
    ELSE LET o == Head(outcomes)
         IN  DrawAll(IF o.kind = "color"
                     THEN DrawRectangle(buf, o.rect[1], o.rect[2], o.rect[3], o.rect[4],
                                        o.color)
                     ELSE buf,
                     Tail(outcomes))

\* the framebuffer after ClearBackground(BLACK)
Cleared == [i \in 0 .. LCD_W * LCD_H - 1 |-> ColorToInt(BLACK)]

\* a sequence in reverse, and from its k-th element round to the one before
Reverse(sq) == [i \in 1 .. Len(sq) |-> sq[Len(sq) + 1 - i]]
Rotated(sq, k) == [i \in 1 .. Len(sq) |-> sq[((i + k - 2) % Len(sq)) + 1]]

\* the pixels of the columns slice_x .. slice_x + RAY_RES - 1 of the screen
ColumnPixels(x0) ==
    { y * LCD_W + x : x \in (x0 .. x0 + RAY_RES - 1) \cap (0 .. LCD_W - 1),
                      y \in 0 .. LCD_H - 1 }

\* C18: in a frame each column has one cast, which draws one slice on a hit of
\* a colour cell and nothing otherwise; the slice of a column lies in the
\* pixel columns [slice_x, slice_x + RAY_RES), apart from those of the other
\* columns, and the framebuffer of the frame is the same in whatever order the
\* slices of the columns are drawn.
C18_Disjoint ==
    pc = "end" =>
        /\ Len(slices) = Cardinality(Columns)
        /\ \A i, j \in DOMAIN slices :
              i # j => /\ slices[i].x # slices[j].x
                       /\ ColumnPixels(slices[i].x) \cap ColumnPixels(slices[j].x) = {}
        /\ \A i \in DOMAIN slices :
              /\ slices[i].kind \in {"color", "miss"}
              /\ slices[i].kind = "color" =>
                    /\ RectPixels(slices[i].rect) \subseteq ColumnPixels(slices[i].x)
                    /\ \A px \in RectPixels(slices[i].rect) :
                          fb[px] = ColorToInt(slices[i].color)
              /\ \A px \in ColumnPixels(slices[i].x) :
                    (slices[i].kind = "miss" \/ px \notin RectPixels(slices[i].rect))
                        => fb[px] = ColorToInt(BLACK)
        /\ fb = DrawAll(Cleared, Reverse(slices))
        /\ \A k \in DOMAIN slices : fb = DrawAll(Cleared, Rotated(slices, k))

\* a frame with a column that missed and two columns whose slices differ in
\* colour and are both on the screen
C18_Witness ==
    /\ pc = "end"
    /\ \E i \in DOMAIN slices : slices[i].kind = "miss"
    /\ \E i, j \in DOMAIN slices :
          /\ slices[i].kind = "color" /\ slices[j].kind = "color"
          /\ slices[i].color # slices[j].color
          /\ RectPixels(slices[i].rect) # {}
          /\ RectPixels(slices[j].rect) # {}

SliceView(sl) ==
    IF sl.kind = "color"
    THEN [x |-> sl.rect[1], top |-> sl.rect[2], width |-> sl.rect[3],
          height |-> sl.rect[4], color |-> sl.color]
    ELSE [x |-> sl.x, height |-> 0]

\* the column drawn by raycast_walls(pl, ray, x) over the map m with the
\* palette cm, walked from the sample point s: a function of the map, the
\* palette, the pose and the column alone (height -1: the walk does not end
\* within n steps)
RECURSIVE CastView(_, _, _, _, _, _, _)
CastView(m, cm, pl, d, x, s, n) ==
    IF ~InRange(pl.pos, s) THEN [x |-> x, height |-> 0]
    ELSE IF InMap(s) /\ m[CellOf(s)[2]][CellOf(s)[1]] # 0
    THEN LET code == m[CellOf(s)[2]][CellOf(s)[1]]
             h == SliceHeight(HitDist(pl, s))
         IN  IF code >= 128
             THEN [x |-> x, top |-> Trunc(SliceTop(h)), width |-> RAY_RES,
                   height |-> Trunc(h),
                   color |-> ColorBrightness(cm[code - 128 + 1],
                                             BrightFactor(HitDist(pl, s)))]
             ELSE [x |-> x, height |-> 0]
    ELSE IF n = 0 \/ Vector2Add(s, StepInc(s, d)) = s THEN [x |-> x, height |-> -1]
    ELSE CastView(m, cm, pl, d, x, Vector2Add(s, StepInc(s, d)), n - 1)

\* C22: the minimap and the ray overlay of the DEBUG build have no effect on
\* the main view: built with or without DEBUG, the column a cast draws (its
\* x, top, height and colour, or nothing) is the same function of the map, the
\* palette, the camera pose and the column, and the next pose is the same
\* function of the pose, the frame time and the buttons; the drawing of the
\* minimap changes neither the columns drawn nor the pose.  (The columns are
\* compared for the casts of fewer than MaxVisited steps.)
C22_DebugNoEffect ==
    [][ /\ pc = "move" =>
              \E levelA \in {0, 1}, levelD \in {0, 1} :
                  p' = move_player(p, GetFrameTime(clock, last_time_us)[1],
                                   { key \in {KEY_A, KEY_D, KEY_W, KEY_S, KEY_E, KEY_Q} :
                                       IsKeyDown(key, levelA, levelD) })
        /\ pc # "move" => p' = p
        /\ slices' # slices =>
              \/ pc = "draw" /\ slices' = << >>
              \/ /\ pc = "cast"
                 /\ Len(slices') = Len(slices) + 1
                 /\ SubSeq(slices', 1, Len(slices)) = slices
                 /\ Len(visited') < MaxVisited =>
                    LET k == Len(slices)
                        a == -(FOV_ANGLE \div 2) + k * ((FOV_ANGLE * RAY_RES) \div SCREEN_W)
                        d == FixDir(Vector2Rotate(p.dir, a))
                    IN  SliceView(slices'[k + 1]) =
                            CastView(map, color_map, p, d, k * RAY_RES,
                                     FirstSample(p.pos, d), MaxVisited) ]_vars

\* a frame of the DEBUG build, drawn after the camera moved: draw_walls drew a
\* wall slice on the screen and the minimap has been drawn over the frame
C22_Witness ==
    /\ DEBUG
    /\ pc = "end"
    /\ frame > 1
    /\ clock > 1
    /\ p # InitPlayer
    /\ \E i \in 1 .. Len(slices) :
          /\ slices[i].kind = "color"
          /\ slices[i].rect[4] > 0
          /\ slices[i].rect[2] < LCD_H
    /\ fb = draw_minimap(fb, map, color_map)
    /\ \E i \in DOMAIN fb : fb[i] = ColorToInt(GetColor(70))

\* C23: GetFrameTime returns 0 on its first call and, on every later call,
\* the time elapsed since the call before (a positive time: the timer has
\* advanced); it remembers the time of the call.  With dt = 0, hence on the
\* first frame, move_player leaves the position and the direction as they
\* were, whatever controls are down.
C23_FrameTime ==
    [][ pc = "move" =>
          LET t == GetFrameTime(clock, last_time_us)
          IN  /\ frame = 1 => t[1] = 0 /\ p' = p
              /\ frame > 1 => t[1] = clock - last_time_us /\ t[1] \in DtSet
              /\ last_time_us' = clock
              /\ \A ks \in SUBSET Keys : move_player(p, 0, ks) = p
              /\ \A ks \in SUBSET Keys : move_player(p', 0, ks) = p' ]_vars

\* the second call of GetFrameTime has returned the time of the first frame
\* and move_player has moved the camera by it
C23_Witness ==
    /\ pc = "begin"
    /\ frame = 2
    /\ last_time_us = clock
    /\ clock - 1 \in DtSet
    /\ p.pos # InitPlayer.pos

\* C24: in raycast_walls a component of the ray direction that is exactly zero
\* has been replaced by EPSILON before the traversal starts and the other
\* component is the one of the ray, so whenever distX / dir.x, distY / dir.y,
\* distX * dir.y / dir.x and distY * dir.x / dir.y are evaluated the divisor
\* is not zero.
C24_NonZeroDivisor ==
    pc = "cast" =>
        LET ray == Vector2Rotate(p.dir, alpha)
        IN  /\ dir.x # 0 /\ dir.y # 0
            /\ dir.x = (IF ray.x = 0 THEN EPSILON ELSE ray.x)
            /\ dir.y = (IF ray.y = 0 THEN EPSILON ELSE ray.y)

\* a cast whose ray had a zero component has computed a step with the
\* replaced direction
C24_Witness ==
    /\ pc = "cast"
    /\ frame > 1
    /\ Vector2Rotate(p.dir, alpha).x = 0 \/ Vector2Rotate(p.dir, alpha).y = 0
    /\ Len(visited) > 0
    /\ rs # FirstSample(p.pos, dir)

\* a step of raycast_walls: the sample point is examined exactly when it is
\* within MAX_RENDER_DIST of the camera, and a hit is reported at such a point
RaycastWallsRange ==
    pc = "cast" =>
        /\ (pc' = "cast") => InRange(p.pos, rs)
        /\ IsHit(slice') => InRange(p.pos, rs) /\ slice'.at = rs
        /\ slice'.kind = "miss" => ~InRange(p.pos, rs)

\* the loop condition of cast_ray agrees with the distance from the camera
CastRayRange == pc = "cast" => (cast_ray_InRange(rs) <=> InRange(p.pos, rs))

\* C25: the traversal loop examines a sample point exactly while the Euclidean
\* distance from the camera to the sample point is at most the maximum render
\* distance, wherever the camera is, in raycast_walls and in cast_ray; so every
\* hit reported lies within that distance of the camera.
C25_RangeFromCamera == [][RaycastWallsRange /\ CastRayRange]_vars

\* raycast_walls, lines 128-129: the distance from s to the next grid line
NextLine(c, d, cell) == Fl(cell * ONE + (IF d >= 0 THEN ONE ELSE -EPSILON) - c, 1)

\* raycast_walls, line 131: the step from s is taken along the X axis
StepsAlongX(s, d) ==
    Abs(FDiv(NextLine(s.x, d.x, CellOf(s)[1]), d.x))
        < Abs(FDiv(NextLine(s.y, d.y, CellOf(s)[2]), d.y))

\* a step of the traversal: the increment is the distance to the next grid
\* line on the axis with the strictly smaller |distance / direction| (Y on a
\* tie) and the proportional amount on the other axis
StepRule ==
    (pc = "cast" /\ pc' = "cast") =>
        LET distX == NextLine(rs.x, dir.x, CellOf(rs)[1])
            distY == NextLine(rs.y, dir.y, CellOf(rs)[2])
        IN  rs' = Vector2Add(rs, IF StepsAlongX(rs, dir)
                                 THEN Vec(distX, FDiv(FMul(distX, dir.y), dir.x))
                                 ELSE Vec(FDiv(FMul(distY, dir.x), dir.y), distY))

\* after a step the coordinate on the stepped axis lies in the next cell in
\* the direction of travel
StepLands ==
    (pc = "cast" /\ pc' = "cast") =>
        IF StepsAlongX(rs, dir)
        THEN CellOf(rs')[1] = CellOf(rs)[1] + (IF dir.x >= 0 THEN 1 ELSE -1)
        ELSE CellOf(rs')[2] = CellOf(rs)[2] + (IF dir.y >= 0 THEN 1 ELSE -1)

\* C26: at each iteration without a hit raycast_walls computes, per axis, the
\* distance to the next grid line (cell index + 1 when the component of the
\* direction is >= 0, cell index - EPSILON when it is negative) and steps along
\* the axis with the strictly smaller |distance / direction|, Y on a tie; after
\* the step the coordinate on the stepped axis lies in the adjacent cell on
\* that axis: its index has changed by exactly 1 in the direction of travel.
C26_StepAxis == [][StepRule /\ StepLands]_vars

\* the parameter t of the sample point s on the ray from the camera, times
\* the squared length of the direction: (s - p.pos) . dir
RayParam(s) == (s.x - p.pos.x) * dir.x + (s.y - p.pos.y) * dir.y

\* the distance of s from the line of the ray, times the length of the
\* direction: (s - p.pos) x dir
RayOffset(s) == Abs((s.x - p.pos.x) * dir.y - (s.y - p.pos.y) * dir.x)

\* raycast_walls, line 106: the first sample is the camera position plus
\* EPSILON times the direction, ahead of the camera
FirstOnRay ==
    (pc = "walls" /\ pc' = "cast") =>
        rs' = Vector2Add(p'.pos, Vector2Scale(dir', EPSILON))

\* raycast_walls, lines 128-144: a step moves the sample point forward along
\* the ray and keeps it within a quarter of a cell of the line of the ray
StepOnRay ==
    (pc = "cast" /\ pc' = "cast") =>
        /\ rs' # rs
        /\ RayParam(rs') > RayParam(rs)
        /\ RayOffset(rs') <= ONE * (ONE \div 4)

\* C27: every sample point of a traversal lies on the ray, at camera position
\* + t * direction with t > 0: the first sample has t = EPSILON, and t strictly
\* increases at every step (no zero-length and no backward step), both
\* components moving together in proportion to the direction.
C27_OnRay == [][FirstOnRay /\ StepOnRay /\ (pc' = "cast" => RayParam(rs)' > 0)]_vars

\* the sample point is in a cell of the map that holds a texture code
AtTexture ==
    /\ pc = "cast"
    /\ InRange(p.pos, rs)
    /\ InMap(rs)
    /\ map[CellOf(rs)[2]][CellOf(rs)[1]] \in 1 .. 127

\* C28: a cell holding a texture code (1..127) is occupied for the traversal:
\* when the ray reaches it, every cell examined before being empty, the ray
\* stops there, no slice is drawn for that column, and the occupied cells
\* behind it are not rendered in that column: the column keeps the background.
C28_TextureStops ==
    [][ /\ AtTexture =>
            /\ pc' = "walls"
            /\ slice_x' = slice_x + RAY_RES
            /\ fb' = fb
            /\ slice'.kind = "texture"
            /\ slice'.cell = CellOf(rs)
            /\ slices' = Append(slices, slice')
            /\ \A i \in 1 .. Len(visited) :
                  (visited[i][1] \in 0 .. COLS - 1 /\ visited[i][2] \in 0 .. ROWS - 1)
                      => map[visited[i][2]][visited[i][1]] = 0
        /\ pc' \in {"walls", "cast", "end"} =>
              \A i \in 1 .. Len(slices') :
                  slices'[i].kind = "texture" =>
                      \A k \in ColumnPixels(slices'[i].x) :
                          fb'[k] = ColorToInt(BLACK) ]_vars

\* a frame is complete in which a column ended on the texture cell [1][3],
\* with the occupied cell [1][4] behind it, and another column drew a colour
C28_Witness ==
    /\ pc = "end"
    /\ map[1][3] \in 1 .. 127
    /\ map[1][4] >= 128
    /\ \E i \in 1 .. Len(slices) :
          /\ slices[i].kind = "texture"
          /\ slices[i].cell = << 3, 1 >>
          /\ slices[i].ray.x > 0
    /\ \E i \in 1 .. Len(slices) :
          /\ slices[i].kind = "color"
          /\ slices[i].rect[4] > 0

\* the indices color_map[c - 128] that draw_minimap uses (lines 84-88): one for
\* each cell of the map with a code of 128 or more
MinimapLookups ==
    { map[i][j] - 128 : << i, j >> \in { c \in (0 .. ROWS - 1) \X (0 .. COLS - 1) :
                                          map[c[1]][c[2]] >= 128 } }

\* the indices color_map[map_cell - 128] that raycast_walls uses at the sample
\* point (lines 110-120), when it is in a cell with a code of 128 or more
CastLookups ==
    IF pc = "cast" /\ InRange(p.pos, rs) /\ InMap(rs)
    THEN { c - 128 : c \in { m \in MapRead(map, CellOf(rs)[2], CellOf(rs)[1]) :
                               m >= 128 } }
    ELSE {}

\* C29: in every reachable state each map cell holds 0 or a colour code in
\* 128..134, so every palette lookup color_map[code - 128] of raycast_walls and
\* of draw_minimap uses an index in [0, 7), within the seven-entry palette.
C29_PaletteIndex ==
    /\ \A i \in 0 .. ROWS - 1, j \in 0 .. COLS - 1 :
          map[i][j] = 0 \/ map[i][j] \in 128 .. 134
    /\ Len(color_map) = 7
    /\ CastLookups \subseteq 0 .. Len(color_map) - 1
    /\ (pc = "minimap" => MinimapLookups \subseteq 0 .. Len(color_map) - 1)

\* draw_minimap is about to look up every wall of the map, the last palette
\* entry included, after a frame in which raycast_walls looked up a colour
\* other than the first
C29_Witness ==
    /\ pc = "minimap"
    /\ frame > 1
    /\ 6 \in MinimapLookups
    /\ \E i \in 1 .. Len(slices) :
          slices[i].kind = "color" /\ slices[i].code - 128 \in 1 .. 6

\* the controls IsKeyDown reports for the levels of the two buttons
KeysDown(levelA, levelD) == { key \in Keys : IsKeyDown(key, levelA, levelD) }

\* the pose after a move_player call of frame time dt with both buttons held:
\* the direction of pl, the position MoveDist(dt) further along it, both up to
\* the rounding of the two rotations and of the step
ForwardOnly(a, pl, dt) ==
    /\ Near(a.dir, pl.dir, 2)
    /\ Near(a.pos, Vector2Add(pl.pos, Vector2Scale(pl.dir, MoveDist(dt))),
            MoveSlack(pl, dt))

\* C30: on the ESP32 shim KEY_W is reported active exactly when both buttons
\* are pressed, KEY_A and KEY_D each follow their own button and every other
\* control is never active; so when both buttons are held during a move_player
\* call the two rotations cancel, the direction is unchanged and the position
\* advances by PLAYER_SPEED * dt along that direction.
C30_BothButtons ==
    [][ pc = "move" =>
          \E levelA \in {0, 1}, levelD \in {0, 1} :
              LET dt == GetFrameTime(clock, last_time_us)[1]
              IN  /\ KeysDown(levelA, levelD) =
                        (IF levelA = 0 THEN {KEY_A} ELSE {})
                            \cup (IF levelD = 0 THEN {KEY_D} ELSE {})
                            \cup (IF levelA = 0 /\ levelD = 0 THEN {KEY_W} ELSE {})
                  /\ p' = move_player(p, dt, KeysDown(levelA, levelD))
                  /\ KEY_W \in KeysDown(levelA, levelD) => ForwardOnly(p', p, dt)
                  /\ KeysDown(0, 0) = {KEY_A, KEY_D, KEY_W}
                  /\ ForwardOnly(move_player(p, dt, KeysDown(0, 0)), p, dt) ]_vars

\* move_player has just run with both buttons held for a frame time that is
\* not 0: the camera is ahead of where it started, facing the same way
C30_Witness ==
    /\ pc = "begin"
    /\ frame = 2
    /\ last_time_us = clock
    /\ p = move_player(InitPlayer, clock - 1, KeysDown(0, 0))
    /\ p.pos.x > InitPlayer.pos.x
    /\ Near(p.dir, InitPlayer.dir, 2)

(***************************************************************************)
(* DrawRectangle on its own: a call with arguments drawn from the whole    *)
(* int range, on a cleared framebuffer.  slice holds the arguments, then   *)
(* the rectangle the loops filled; a rectangle that leaves the framebuffer *)
(* is recorded as such and the framebuffer is left as it was.              *)
(***************************************************************************)
RectCoords == {-INT_MAX, -(LCD_W + 1), -2, 0, 3, LCD_H - 1, LCD_W - 1, LCD_W,
               LCD_W + 2, INT_MAX}

RectSizes == {-1, 0, 1, 3, LCD_W + 3, INT_MAX}

OnScreen(r) ==
    /\ r[1] >= 0 /\ r[2] >= 0 /\ r[3] >= 0 /\ r[4] >= 0
    /\ r[1] <= LCD_W /\ r[3] <= LCD_W - r[1]
    /\ r[2] <= LCD_H /\ r[4] <= LCD_H - r[2]

RectInit ==
    /\ DEBUG = FALSE
    /\ map = init_game
    /\ color_map = InitColorMap
    /\ p = InitPlayer
    /\ pc = "rect"
    /\ frame = 0
    /\ clock = 1
    /\ last_time_us = 0
    /\ slice_x = 0
    /\ alpha = 0
    /\ dir = NoVec
    /\ rs = NoVec
    /\ visited = << >>
    /\ readIdx = {}
    /\ slices = << >>
    /\ fb = Cleared
    /\ slice \in [kind : {"args"}, posX : RectCoords, posY : RectCoords,
                  width : RectSizes, height : RectSizes]

DrawRect ==
    /\ pc = "rect"
    /\ \E r \in ClipRect(slice.posX, slice.posY, slice.width, slice.height) :
          /\ slice' = [slice EXCEPT !.kind = "drawn"] @@ [rect |-> r]
          /\ fb' = IF OnScreen(r) THEN FillRect(fb, r, WHITE) ELSE fb
    /\ pc' = "drawn"
    /\ UNCHANGED << map, color_map, DEBUG, p, frame, clock, last_time_us, slice_x, alpha, dir,
                    rs, visited, readIdx, slices >>

RectNext == DrawRect

RectSpec == RectInit /\ [][RectNext]_vars

(* The part of the requested rectangle that is on the screen, as pixels
   (x, y); computed without leaving the int range. *)
Within(c, pos, size) ==
    /\ size > 0
    /\ c >= pos
    /\ IF pos < 0 THEN c < size + pos ELSE c - pos < size

Requested(x, y) ==
    /\ Within(x, slice.posX, slice.width)
    /\ Within(y, slice.posY, slice.height)

\* C19: for every int posX, posY, width, height (negative, zero, partly or
\* wholly off the screen, larger than the screen) the rectangle DrawRectangle
\* fills lies in the framebuffer, so that every index it writes is in
\* 0 .. LCD_W * LCD_H - 1, and every pixel written is a pixel of the requested
\* rectangle, so that a rectangle with no on-screen part writes nothing.
C19_Clips ==
    pc = "drawn" =>
        /\ OnScreen(slice.rect)
        /\ \A y \in 0 .. LCD_H - 1, x \in 0 .. LCD_W - 1 :
              (fb[y * LCD_W + x] = ColorToInt(WHITE)) => Requested(x, y)

=============================================================================
